---- MODULE Spec2Model ----
(***************************************************************************)
(* A model of proxy-router-rs: the SOCKS5 inbound router                   *)
(* (src/router/socks5.rs) and the upstream proxy client (src/proxy.rs).    *)
(*                                                                         *)
(* One router owns a listener and an accept loop; each accepted socket     *)
(* gets its own handler task (handle_socket).  A handler is modelled as a  *)
(* sequence of steps, one per await point of the Rust code; the code       *)
(* between two await points runs inside one action.                        *)
(***************************************************************************)
EXTENDS Naturals, Sequences, FiniteSets, TLC

\* ------------------------------------------------------------------ bounds
\* Number of sockets the accept loop hands to handlers in a run.
MaxConn == 2
\* Number of sockets accepted in a run of the fair specification.
MaxLiveConn == 1

Conns == 1..MaxConn

\* ------------------------------------------------------- value vocabularies
\* std::io::ErrorKind values (the ones the code names, and others).
IoKinds ==
    { "NotFound", "PermissionDenied", "ConnectionRefused", "ConnectionReset",
      "HostUnreachable", "NetworkUnreachable", "ConnectionAborted",
      "NotConnected", "AddrInUse", "AddrNotAvailable", "NetworkDown",
      "BrokenPipe", "AlreadyExists", "WouldBlock", "InvalidInput",
      "InvalidData", "TimedOut", "WriteZero", "Interrupted", "Unsupported",
      "UnexpectedEof", "OutOfMemory", "Other" }

\* fast_socks5::ReplyError, the SOCKS5 failure reply vocabulary.
ReplyErrors ==
    { "GeneralFailure", "ConnectionNotAllowed", "NetworkUnreachable",
      "HostUnreachable", "ConnectionRefused", "TtlExpired",
      "CommandNotSupported", "AddressTypeNotSupported", "ConnectionTimeout" }

\* enum ProxyError.  A value is a record: the variant, the variant of the
\* wrapped HttpError / SocksError (inner), and the kind of the wrapped
\* std::io::Error (kind); "None" where a level does not exist.
PErr(v, i, k) == [variant |-> v, inner |-> i, kind |-> k]
NoError == PErr("None", "None", "None")
ConnectionTimeout == PErr("ConnectionTimeout", "None", "None")
ProxyErrors ==
    { PErr("UrlParseError", "None", "None"),
      PErr("InvalidProtocol", "None", "None"),
      PErr("InvalidHost", "None", "None"),
      ConnectionTimeout }
    \cup { PErr("HttpError", "IoError", k) : k \in IoKinds }
    \cup { PErr("HttpError", i, "None") : i \in {"HttpParseError", "HttpCode200"} }
    \cup { PErr("SocksError", "Io", k) : k \in IoKinds }
    \cup { PErr("SocksError", i, "None") :
             i \in {"ReplyError", "AuthenticationRejected", "Other"} }

\* fn map_proxy_connect_error(err: ProxyError) -> ReplyError
MapIgnoresReset(err) ==
    IF err.variant = "ConnectionTimeout" THEN "ConnectionTimeout"
    ELSE IF (err.variant = "HttpError" /\ err.inner = "IoError")
            \/ (err.variant = "SocksError" /\ err.inner = "Io")
         THEN CASE err.kind = "ConnectionRefused" -> "ConnectionRefused"
                [] err.kind = "ConnectionAborted" -> "ConnectionNotAllowed"
                [] err.kind = "NotConnected"      -> "NetworkUnreachable"
                [] OTHER                          -> "GeneralFailure"
         ELSE "GeneralFailure"

map_proxy_connect_error(err) ==
    LET io_error ==
            IF (err.variant = "HttpError" /\ err.inner = "IoError")
               \/ (err.variant = "SocksError" /\ err.inner = "Io")
            THEN err.kind ELSE "None"
    IN  IF err.variant = "ConnectionTimeout" THEN "ConnectionTimeout"
        ELSE IF io_error # "None"
             THEN CASE io_error = "ConnectionRefused" -> "ConnectionRefused"
                    [] io_error = "ConnectionAborted" -> "ConnectionNotAllowed"
                    [] io_error = "ConnectionReset"   -> "ConnectionNotAllowed"
                    [] io_error = "NotConnected"      -> "NetworkUnreachable"
                    [] OTHER                          -> "GeneralFailure"
             ELSE "GeneralFailure"

\* ------------------------------------------------------------ configuration
\* struct Proxy { protocol, host, port, auth }: the upstream endpoints a run
\* is configured with (both protocols and both kinds of auth occur).
Proxies ==
    { [protocol |-> "Http", host |-> "proxy.local", port |-> 3128,
       auth |-> "None"],
      [protocol |-> "Socks5", host |-> "proxy.local", port |-> 1080,
       auth |-> "Basic"] }

\* RouterOptions.request_timeout, in seconds (the builder's default).
RequestTimeout == 10

\* The target address of a client's request (fast_socks5 TargetAddr).
Target(k, h, p) == [kind |-> k, host |-> h, port |-> p]
NoTarget == Target("none", "", 0)
IpTarget == Target("ip", "10.0.0.1", 80)
DomainTarget == Target("domain", "example.com", 443)

\* What upgrade_to_socks5 can leave in the socket: get_command() and
\* target_addr().
Requests ==
    { [cmd |-> "None", target |-> NoTarget],
      [cmd |-> "TCPBind", target |-> IpTarget],
      [cmd |-> "UDPAssociate", target |-> DomainTarget],
      [cmd |-> "TCPConnect", target |-> NoTarget],
      [cmd |-> "TCPConnect", target |-> IpTarget],
      [cmd |-> "TCPConnect", target |-> DomainTarget] }

\* A std::net::SocketAddr.
Addr(i, p) == [ip |-> i, port |-> p]
NoAddr == Addr("", 0)

\* target_addr.to_socket_addrs(): an io::Error, or the (possibly empty) list
\* of resolved addresses.  An IP target converts to itself; a domain target
\* is looked up and the lookup may fail or return nothing.
ResolveOutcomes(t) ==
    IF t.kind = "ip"
    THEN { [err |-> FALSE, addrs |-> << Addr(t.host, t.port) >>] }
    ELSE { [err |-> TRUE, addrs |-> << >>],
           [err |-> FALSE, addrs |-> << >>],
           [err |-> FALSE, addrs |-> << Addr("93.184.216.34", t.port) >>] }

\* The arguments of one connect_with_timeout call.
Args(h, p, t) == [host |-> h, port |-> p, timeout |-> t]
NoArgs == Args("", 0, 0)

\* Result<TcpStream, ProxyError>: Ok(stream), an error, or not there yet.
OkStream == PErr("Ok", "None", "None")

\* The success reply written by execute_command_connect.
SuccessReply == << 5, 0, 0, 1, 127, 0, 0, 1, 0, 0 >>

\* ------------------------------------------------------------ Proxy::from_url
\* Option<T>: None and Some(x).
Absent == << >>
Some(x) == << x >>

\* The port from_url falls back on (unwrap_or(80)).
FallbackPort == 80

\* A URL string, by its parts: whether it is well formed, its scheme, and
\* the host, port, user name and password it carries (or not).  Without a
\* host ("socks5:foo") there is no authority, hence no port and no userinfo.
UrlText(w, s, h, p, u, pw) ==
    [well_formed |-> w, scheme |-> s, host |-> h, port |-> p,
     username |-> u, password |-> pw]
NoUrl == UrlText(FALSE, "", Absent, Absent, "", Absent)
Schemes == {"http", "https", "socks5", "socks4", "ftp", "ws"}
UrlTexts ==
    { UrlText(w, s, Some("proxy.local"), p, u, pw) :
        w \in BOOLEAN, s \in Schemes,
        p \in {Absent, Some(80), Some(443), Some(8080)},
        u \in {"", "user"}, pw \in {Absent, Some("pw")} }
    \cup { UrlText(w, s, Absent, Absent, "", Absent) :
             w \in BOOLEAN, s \in Schemes }

\* url crate: the schemes whose URLs must have a host, and the default port
\* the crate knows for a scheme (http, ws: 80; https, wss: 443; ftp: 21).
SpecialSchemes == {"http", "https", "ws", "wss", "ftp"}
KnownDefaultPort(scheme) ==
    CASE scheme \in {"http", "ws"}   -> Some(80)
      [] scheme \in {"https", "wss"} -> Some(443)
      [] scheme = "ftp"              -> Some(21)
      [] OTHER                       -> Absent

\* Url::parse(url), line 41: an error for a malformed string or a special
\* scheme without host; otherwise the parsed Url, whose port() is None when
\* the string gives no port or gives the scheme's default port.
Url_parse(text) ==
    IF ~text.well_formed
       \/ (text.scheme \in SpecialSchemes /\ text.host = Absent)
    THEN [err |-> TRUE, scheme |-> "", host |-> Absent, port |-> Absent,
          username |-> "", password |-> Absent]
    ELSE [err |-> FALSE, scheme |-> text.scheme, host |-> text.host,
          port |-> IF text.port = KnownDefaultPort(text.scheme)
                   THEN Absent ELSE text.port,
          username |-> text.username, password |-> text.password]

\* Url::port_or_known_default(), called at line 51.
PortOrNone(u) == u.port

port_or_known_default(u) ==
    IF u.port # Absent THEN u.port ELSE KnownDefaultPort(u.scheme)

\* from_url, lines 42-46: the match on the scheme.
ProtocolOfSchemeDefaultsHttp(scheme) ==
    CASE scheme = "socks5" -> "Socks5"
      [] OTHER             -> "Http"

ProtocolOfScheme(scheme) ==
    CASE scheme \in {"http", "https"} -> "Http"
      [] scheme = "socks5"            -> "Socks5"
      [] OTHER                        -> "InvalidProtocol"

\* Result<Proxy, ProxyError> of from_url: err is "None" for Ok(proxy).
ProxyResult(e, pr, h, p, a) ==
    [err |-> e, protocol |-> pr, host |-> h, port |-> p, auth |-> a]
NoAuth == [kind |-> "None", username |-> "", password |-> ""]
Basic(u, pw) == [kind |-> "Basic", username |-> u, password |-> pw]
FromUrlErr(e) == ProxyResult(e, "", "", 0, NoAuth)
NoProxy == FromUrlErr("Uncalled")

\* pub fn from_url(url: &str) -> Result<Self, ProxyError>, lines 40-67.
from_url(text) ==
    LET parsed_url == Url_parse(text)
    IN  IF parsed_url.err THEN FromUrlErr("UrlParseError")
        ELSE IF ProtocolOfScheme(parsed_url.scheme) = "InvalidProtocol"
        THEN FromUrlErr("InvalidProtocol")
        ELSE IF parsed_url.host = Absent THEN FromUrlErr("InvalidHost")
        ELSE LET known == port_or_known_default(parsed_url)
                 port == IF known = Absent THEN FallbackPort ELSE Head(known)
                 auth == IF parsed_url.password # Absent
                            /\ parsed_url.username # ""
                         THEN Basic(parsed_url.username,
                                    Head(parsed_url.password))
                         ELSE NoAuth
             IN  ProxyResult("None", ProtocolOfScheme(parsed_url.scheme),
                             Head(parsed_url.host), port, auth)

\* ------------------------------------------------------------------- state
VARIABLES
    options,       \* RouterOptions: [proxy, request_timeout]
    listener,      \* "unbound", "bound", "failed"
    routerResult,  \* what spawn_socks5_router returned: "pending", "Ok", "Err"
    acceptLoop,    \* the spawned accept task: "not_started", "running", "stopped"
    nAccepted,     \* sockets the loop has handed to a handler
    acceptFailed,  \* whether some accept has returned Err
    conn,          \* per handler task: its position and everything it owns
    mapIn, mapOut, \* argument and result of a map_proxy_connect_error call
    urlIn, urlOut  \* argument and result of a Proxy::from_url call

vars == << options, listener, routerResult, acceptLoop, nAccepted, acceptFailed,
           conn, mapIn, mapOut, urlIn, urlOut >>
routerVars == << options, listener, routerResult, acceptLoop, nAccepted,
                 acceptFailed >>
mapVars == << mapIn, mapOut >>
urlVars == << urlIn, urlOut >>
pureVars == << mapVars, urlVars >>

\* A handler task that does not exist yet.
NoConn ==
    [ pc |-> "Idle",            \* await point the handler is at
      proxy |-> [protocol |-> "", host |-> "", port |-> 0, auth |-> ""],
      timeout |-> 0,            \* the cloned proxy and timeout it was given
      client |-> "none",        \* inbound socket: "none", "open", "closed"
      upstream |-> "none",      \* upstream TcpStream: "none", "open", "closed"
      cmd |-> "Unread",         \* socket.get_command()
      target |-> NoTarget,      \* socket.target_addr()
      socket_addr |-> NoAddr,   \* the resolved address
      args |-> NoArgs,          \* arguments given to connect_with_timeout
      attempts |-> 0,           \* calls of Proxy::connect
      stage |-> "none",         \* inner connect: "none", "tcp", "handshake",
                                \*   "done", "cancelled"
      callee |-> "none",        \* collaborator the inner connect called
      timer |-> "off",          \* "off", "armed", "fired", "dropped"
      inner |-> NoError,        \* result of Proxy::connect, once complete
      cwt |-> NoError,          \* result of connect_with_timeout
      replies |-> << >>,        \* codes of the reply writes the handler made
      replyIo |-> "none",       \* how the last of them ended: "ok", "err"
      written |-> << >>,        \* success-reply bytes the socket took
      flushed |-> FALSE,
      relays |-> 0,             \* calls of copy_bidirectional
      relayEnd |-> "None",      \* how it returned: "Ok" or an io ErrorKind
      replyErr |-> "None",      \* the ReplyError execute_command returned
      result |-> "none",        \* handle_socket's return: "none", "Ok", "Err"
      error |-> "None" ]        \* the SocksError variant it returned

Init ==
    /\ options \in [proxy : Proxies, request_timeout : {RequestTimeout}]
    /\ listener = "unbound"
    /\ routerResult = "pending"
    /\ acceptLoop = "not_started"
    /\ nAccepted = 0
    /\ acceptFailed = FALSE
    /\ conn = [c \in Conns |-> NoConn]
    /\ mapIn = NoError
    /\ mapOut = "None"
    /\ urlIn = NoUrl
    /\ urlOut = NoProxy

\* ------------------------------------------------------------------ router
\* spawn_socks5_router, line 44: Socks5Server::bind(..).await.context(..)?
BindFailStartsLoop ==
    /\ listener = "unbound"
    /\ listener' = "failed"
    /\ routerResult' = "Err"
    /\ acceptLoop' = "running"
    /\ UNCHANGED << options, nAccepted, acceptFailed, conn, pureVars >>

BindFail ==
    /\ listener = "unbound"
    /\ listener' = "failed"
    /\ routerResult' = "Err"
    /\ UNCHANGED << options, acceptLoop, nAccepted, acceptFailed, conn, pureVars >>

\* spawn_socks5_router, lines 44-72: the bind succeeded, the accept task is
\* spawned and its JoinHandle returned (no await in between).
BindOk ==
    /\ listener = "unbound"
    /\ listener' = "bound"
    /\ acceptLoop' = "running"
    /\ routerResult' = "Ok"
    /\ UNCHANGED << options, nAccepted, acceptFailed, conn, pureVars >>

\* The accept loop, lines 52-64: incoming.next() returned Some(Ok(socket));
\* a handler task is spawned with a clone of the proxy and the timeout.
AcceptOk ==
    /\ acceptLoop = "running"
    /\ nAccepted < MaxConn
    /\ nAccepted' = nAccepted + 1
    /\ conn' = [conn EXCEPT ![nAccepted + 1] =
                  [@ EXCEPT !.pc = "Upgrade", !.client = "open",
                            !.proxy = options.proxy,
                            !.timeout = options.request_timeout]]
    /\ UNCHANGED << options, listener, routerResult, acceptLoop, acceptFailed,
                    pureVars >>

\* The accept loop, lines 65-67: incoming.next() returned Some(Err(err)); the
\* error is logged and the loop goes on.
AcceptErrBreaks ==
    /\ acceptLoop = "running"
    /\ acceptFailed' = TRUE
    /\ acceptLoop' = "stopped"
    /\ UNCHANGED << options, listener, routerResult, nAccepted, conn, pureVars >>

AcceptErr ==
    /\ acceptLoop = "running"
    /\ acceptFailed' = TRUE
    /\ UNCHANGED << options, listener, routerResult, acceptLoop, nAccepted,
                    conn, pureVars >>

\* ----------------------------------------------------------------- handler
\* The handler task returns: handle_socket's locals (the client socket and,
\* inside execute_command_connect, the upstream stream) are dropped, which
\* closes them.  Only the task's own record changes.
ReturnKeepsUpstream(r, res, e) ==
    [r EXCEPT !.pc = "Closed", !.result = res, !.error = e,
              !.client = "closed"]

Return(r, res, e) ==
    [r EXCEPT !.pc = "Closed", !.result = res, !.error = e,
              !.client = "closed",
              !.upstream = IF @ = "open" THEN "closed" ELSE @]

\* One step of the handler task spawned at lines 57-63.  The task owns its
\* socket, its proxy clone and its locals, so a step changes the task's own
\* record and nothing else; an Err from handle_socket is logged (line 61).
TaskStepErrStopsLoop(c, r) ==
    /\ conn' = [conn EXCEPT ![c] = r]
    /\ acceptLoop' = IF r.result = "Err" THEN "stopped" ELSE acceptLoop
    /\ UNCHANGED << options, listener, routerResult, nAccepted, acceptFailed,
                    pureVars >>

TaskStep(c, r) ==
    /\ conn' = [conn EXCEPT ![c] = r]
    /\ UNCHANGED << routerVars, pureVars >>

\* handle_socket, line 80: socket.upgrade_to_socks5().await?
\* The collaborator negotiates with the client and reads its request, or
\* fails; a failure returns from handle_socket at once.
Upgrade(c) ==
    /\ conn[c].pc = "Upgrade"
    /\ \/ TaskStep(c, Return(conn[c], "Err", "Handshake"))
       \/ \E req \in Requests :
            TaskStep(c, [conn[c] EXCEPT !.pc = "ExecuteCommand",
                                        !.cmd = req.cmd,
                                        !.target = req.target])

\* execute_command, lines 101-108: only Some(TCPConnect) reaches
\* execute_command_connect.
CommandSupportedUdp(cmd) == cmd \in {"TCPConnect", "UDPAssociate"}

CommandSupported(cmd) == cmd = "TCPConnect"

\* execute_command_connect, line 128: the ReplyError a failed connect gives.
FailureReplyGeneral(err) == "GeneralFailure"

FailureReply(err) == map_proxy_connect_error(err)

\* Proxy::connect, lines 78-124: the collaborator that does the handshake.
Callee(proxy) ==
    CASE proxy.protocol = "Http" /\ proxy.auth = "None" -> "http_connect_tokio"
      [] proxy.protocol = "Http" /\ proxy.auth = "Basic" ->
             "http_connect_tokio_with_basic_auth"
      [] proxy.protocol = "Socks5" /\ proxy.auth = "None" ->
             "Socks5Stream::connect"
      [] proxy.protocol = "Socks5" /\ proxy.auth = "Basic" ->
             "Socks5Stream::connect_with_password"

\* execute_command_connect, lines 116-117: socket.target_addr() of the
\* handler's own socket.
TargetOfLastAccepted(c) == conn[nAccepted].target

TargetOf(c) == conn[c].target

\* execute_command_connect, lines 123-125: the host handed to
\* connect_with_timeout is socket_addr.ip().to_string(), the resolved address.
ConnectHostAsRequested(target, socket_addr) == target.host

ConnectHost(target, socket_addr) == socket_addr.ip

\* handle_socket line 82 to the first await of execute_command_connect
\* (lines 101-125).  An unsupported command and a failed connect come back
\* as SocksError::ReplyError; a missing target (anyhow context), a failed
\* to_socket_addrs (io::Error) and an empty address list (anyhow context)
\* come back as other SocksError variants, which handle_socket returns as
\* they are (line 90).
ExecuteCommand(c) ==
    /\ conn[c].pc = "ExecuteCommand"
    /\ IF ~CommandSupported(conn[c].cmd)
       THEN TaskStep(c, [conn[c] EXCEPT !.pc = "ReplyError",
                                        !.replyErr = "CommandNotSupported"])
       ELSE IF TargetOf(c) = NoTarget
       THEN TaskStep(c, Return(conn[c], "Err", "Other"))
       ELSE \E res \in ResolveOutcomes(TargetOf(c)) :
              IF res.err
              THEN TaskStep(c, Return(conn[c], "Err", "Io"))
              ELSE IF res.addrs = << >>
              THEN TaskStep(c, Return(conn[c], "Err", "Other"))
              ELSE TaskStep(c,
                     [conn[c] EXCEPT !.pc = "Connect",
                                     !.socket_addr = Head(res.addrs),
                                     !.args = Args(ConnectHost(TargetOf(c),
                                                               Head(res.addrs)),
                                                   Head(res.addrs).port,
                                                   conn[c].timeout),
                                     !.attempts = @ + 1,
                                     !.stage = "tcp",
                                     !.timer = "armed"])

\* ------------------------------------------------- connect_with_timeout
\* io::Error kinds a TCP connect to the upstream fails with, and the ones a
\* handshake over the connected stream fails with (one of each here; SpecMap
\* runs map_proxy_connect_error on every kind).
TcpConnectKinds == {"ConnectionRefused"}
HandshakeKinds == {"ConnectionReset"}

\* Proxy::connect, lines 82, 87, 97, 110, 121: how an io::Error of the
\* upstream is wrapped (HttpError::IoError, or SocksError::Io through `?`).
IoErr(proxy, k) ==
    IF proxy.protocol = "Http" THEN PErr("HttpError", "IoError", k)
                               ELSE PErr("SocksError", "Io", k)

\* The upstream refusing the handshake itself (a non-200 answer to CONNECT,
\* a SOCKS5 failure reply).
ProtocolErr(proxy) ==
    IF proxy.protocol = "Http" THEN PErr("HttpError", "HttpCode200", "None")
                               ELSE PErr("SocksError", "ReplyError", "None")

\* connect_with_timeout, lines 136-138: tokio's timeout gives Err(Elapsed)
\* when the timer won and Ok(inner result) when the inner connect completed.
UnwrapEveryErrorAsTimeout(elapsed, value) ==
    IF elapsed \/ value # OkStream THEN ConnectionTimeout ELSE value

unwrap_or_else(elapsed, value) ==
    IF elapsed THEN ConnectionTimeout ELSE value

\* What is left of the inner connect's stream when its future is dropped by
\* the timeout (lines 136-138): the stream is a local of the future (lines
\* 80, 104-122) and is closed with it.
DropInnerLeaks(sock) == sock

DropInner(sock) == IF sock = "open" THEN "closed" ELSE sock

\* execute_command_connect, lines 123-133, once connect_with_timeout has
\* returned `res`: on Ok go on to write the success reply, on Err return the
\* mapped ReplyError to handle_socket, which goes on to send it (line 86).
AfterConnectSkipsReply(r, res) ==
    IF res = OkStream
    THEN [r EXCEPT !.cwt = res, !.pc = "Relay", !.relays = @ + 1]
    ELSE [r EXCEPT !.cwt = res, !.pc = "ReplyError",
                   !.replyErr = FailureReply(res)]

AfterConnectRetries(r, res) ==
    IF res = OkStream
    THEN [r EXCEPT !.cwt = res, !.pc = "WriteReply"]
    ELSE IF r.attempts < 2
         THEN [r EXCEPT !.cwt = res, !.pc = "Connect", !.stage = "tcp",
                        !.timer = "armed", !.attempts = @ + 1,
                        !.upstream = DropInner(@)]
         ELSE [r EXCEPT !.cwt = res, !.pc = "ReplyError",
                        !.replyErr = FailureReply(res)]

AfterConnect(r, res) ==
    IF res = OkStream
    THEN [r EXCEPT !.cwt = res, !.pc = "WriteReply"]
    ELSE [r EXCEPT !.cwt = res, !.pc = "ReplyError",
                   !.replyErr = FailureReply(res)]

\* Proxy::connect, lines 80-83 (and the TCP connect inside
\* Socks5Stream::connect, lines 104-122).
TcpConnect(c) ==
    /\ conn[c].pc = "Connect"
    /\ conn[c].stage = "tcp"
    /\ \/ TaskStep(c, [conn[c] EXCEPT !.stage = "handshake",
                                       !.upstream = "open",
                                       !.callee = Callee(conn[c].proxy)])
       \/ \E k \in TcpConnectKinds :
            LET e == IoErr(conn[c].proxy, k)
            IN  TaskStep(c, AfterConnect(
                              [conn[c] EXCEPT !.stage = "done",
                                              !.inner = e,
                                              !.timer = "dropped"],
                              unwrap_or_else(FALSE, e)))

\* Proxy::connect, lines 85-127: the HTTP CONNECT or SOCKS5 handshake over
\* the connected stream.  A failure returns through `?`, dropping the stream.
Handshake(c) ==
    /\ conn[c].pc = "Connect"
    /\ conn[c].stage = "handshake"
    /\ \/ TaskStep(c, AfterConnect(
                        [conn[c] EXCEPT !.stage = "done",
                                        !.inner = OkStream,
                                        !.timer = "dropped"],
                        unwrap_or_else(FALSE, OkStream)))
       \/ \E e \in { IoErr(conn[c].proxy, k) : k \in HandshakeKinds }
                     \cup { ProtocolErr(conn[c].proxy) } :
            TaskStep(c, AfterConnect(
                          [conn[c] EXCEPT !.stage = "done",
                                          !.inner = e,
                                          !.timer = "dropped",
                                          !.upstream = "closed"],
                          unwrap_or_else(FALSE, e)))

\* connect_with_timeout, lines 136-138: the timer elapses while the inner
\* connect is still pending; its future is dropped.
TimerNeverFires(c) ==
    /\ FALSE
    /\ UNCHANGED vars

TimerFire(c) ==
    /\ conn[c].pc = "Connect"
    /\ conn[c].timer = "armed"
    /\ TaskStep(c, AfterConnect(
                     [conn[c] EXCEPT !.stage = "cancelled",
                                     !.timer = "fired",
                                     !.upstream = DropInner(@)],
                     unwrap_or_else(TRUE, conn[c].inner)))

\* ------------------------------------------------------- replies and relay
\* handle_socket, lines 84-89: socks5_socket.reply_error(&err).await?; then
\* return Err(err.into()).  A failed write returns its io::Error instead.
ReplyError(c) ==
    /\ conn[c].pc = "ReplyError"
    /\ \E io \in {"ok", "err"} :
         TaskStep(c, Return([conn[c] EXCEPT
                               !.replies = Append(@, conn[c].replyErr),
                               !.replyIo = io],
                            "Err", IF io = "ok" THEN "ReplyError" ELSE "Io"))

\* Byte counts socket.write may return for the 10-byte reply: all of it, or
\* fewer (write, unlike write_all, does not loop).
WriteCounts == {4, Len(SuccessReply)}

\* execute_command_connect, lines 133-143: socket.write(&vec![..]).await
WriteReply(c) ==
    /\ conn[c].pc = "WriteReply"
    /\ \/ TaskStep(c, Return([conn[c] EXCEPT
                                !.replies = Append(@, "Succeeded"),
                                !.replyIo = "err"],
                             "Err", "Other"))
       \/ \E n \in WriteCounts :
            TaskStep(c, [conn[c] EXCEPT
                           !.replies = Append(@, "Succeeded"),
                           !.replyIo = "ok",
                           !.written = SubSeq(SuccessReply, 1, n),
                           !.pc = "Flush"])

\* execute_command_connect, line 144: a failed flush leaves through `?` as
\* an anyhow error (SocksError::Other), which handle_socket returns as it is
\* (line 90), without a reply.
FlushErrReplies(r) ==
    [r EXCEPT !.pc = "ReplyError", !.replyErr = "GeneralFailure"]

FlushErr(r) == Return(r, "Err", "Other")

\* execute_command_connect, lines 144-148: socket.flush().await, then the
\* call of copy_bidirectional.
Flush(c) ==
    /\ conn[c].pc = "Flush"
    /\ \/ TaskStep(c, FlushErr(conn[c]))
       \/ TaskStep(c, [conn[c] EXCEPT !.flushed = TRUE,
                                       !.pc = "Relay",
                                       !.relays = @ + 1])

\* How copy_bidirectional can return: Ok (both directions reached end of
\* stream) or an io::Error of one of these kinds.
RelayOutcomes == {"Ok", "NotConnected", "ConnectionReset", "ConnectionAborted"}

\* execute_command_connect, lines 148-163: what the handler returns for an
\* outcome of copy_bidirectional.  The kinds NotConnected and ConnectionReset
\* are logged ("closed by client", "closed by downstream proxy") and give
\* Ok(()); any other error is returned.
RelayResultOkOnlyForOk(out) ==
    IF out = "Ok" THEN "Ok" ELSE "Err"

RelayResult(out) ==
    IF out \in {"Ok", "NotConnected", "ConnectionReset"} THEN "Ok" ELSE "Err"

\* execute_command_connect, lines 148-163: copy_bidirectional returns.
RelayEnd(c) ==
    /\ conn[c].pc = "Relay"
    /\ \E out \in RelayOutcomes :
         LET r == [conn[c] EXCEPT !.relayEnd = out]
         IN  IF RelayResult(out) = "Ok"
             THEN TaskStep(c, Return(r, "Ok", "None"))
             ELSE TaskStep(c, Return(r, "Err", "Io"))

\* ------------------------------------------------------------ specification
HandlerStep(c) ==
    \/ Upgrade(c)
    \/ ExecuteCommand(c)
    \/ TcpConnect(c)
    \/ Handshake(c)
    \/ TimerFire(c)
    \/ ReplyError(c)
    \/ WriteReply(c)
    \/ Flush(c)
    \/ RelayEnd(c)

Next ==
    \/ BindFail
    \/ BindOk
    \/ AcceptOk
    \/ AcceptErr
    \/ \E c \in Conns : Upgrade(c)
    \/ \E c \in Conns : ExecuteCommand(c)
    \/ \E c \in Conns : TcpConnect(c)
    \/ \E c \in Conns : Handshake(c)
    \/ \E c \in Conns : TimerFire(c)
    \/ \E c \in Conns : ReplyError(c)
    \/ \E c \in Conns : WriteReply(c)
    \/ \E c \in Conns : Flush(c)
    \/ \E c \in Conns : RelayEnd(c)

Spec == Init /\ [][Next]_vars

\* The same program with what its runtime guarantees: an armed timer elapses
\* unless the connect completes first, and a reply write to the client
\* returns.  Nothing is assumed of the upstream, which may never answer.
NextLive == Next /\ nAccepted' <= MaxLiveConn

LiveSpec ==
    /\ Init
    /\ [][NextLive]_vars
    /\ \A c \in Conns : WF_vars(TimerFire(c)) /\ WF_vars(ReplyError(c))

\* A specification of map_proxy_connect_error alone: it is called on every
\* ProxyError value, one after the other.
InitMap ==
    /\ options \in [proxy : Proxies, request_timeout : {RequestTimeout}]
    /\ listener = "unbound"
    /\ routerResult = "pending"
    /\ acceptLoop = "not_started"
    /\ nAccepted = 0
    /\ acceptFailed = FALSE
    /\ conn = [c \in Conns |-> NoConn]
    /\ mapIn \in ProxyErrors
    /\ mapOut = "None"
    /\ urlIn = NoUrl
    /\ urlOut = NoProxy

MapCall ==
    /\ mapOut = "None"
    /\ mapOut' = map_proxy_connect_error(mapIn)
    /\ UNCHANGED << routerVars, conn, mapIn, urlVars >>

MapNextInput ==
    /\ mapOut # "None"
    /\ mapIn' \in ProxyErrors
    /\ mapOut' = "None"
    /\ UNCHANGED << routerVars, conn, urlVars >>

NextMap ==
    \/ MapCall
    \/ MapNextInput

SpecMap == InitMap /\ [][NextMap]_vars

\* A specification of Proxy::from_url alone: it is called on one URL string
\* after the other.
InitUrl ==
    /\ options \in [proxy : Proxies, request_timeout : {RequestTimeout}]
    /\ listener = "unbound"
    /\ routerResult = "pending"
    /\ acceptLoop = "not_started"
    /\ nAccepted = 0
    /\ acceptFailed = FALSE
    /\ conn = [c \in Conns |-> NoConn]
    /\ mapIn = NoError
    /\ mapOut = "None"
    /\ urlIn \in UrlTexts
    /\ urlOut = NoProxy

UrlCall ==
    /\ urlOut = NoProxy
    /\ urlOut' = from_url(urlIn)
    /\ UNCHANGED << routerVars, conn, mapVars, urlIn >>

UrlNextInput ==
    /\ urlOut # NoProxy
    /\ urlIn' \in UrlTexts
    /\ urlOut' = NoProxy
    /\ UNCHANGED << routerVars, conn, mapVars >>

NextUrl ==
    \/ UrlCall
    \/ UrlNextInput

SpecUrl == InitUrl /\ [][NextUrl]_vars

\* ------------------------------------------------------------------ claims
Closed(c) == conn[c].pc = "Closed"
Failed(res) == res \notin {NoError, OkStream}

\* C1: every connection whose command is CONNECT has been sent a SOCKS5
\* reply (success or a failure code) by the time its handler has terminated.
C1_ConnectAlwaysReplied ==
    \A c \in Conns :
        (Closed(c) /\ conn[c].cmd = "TCPConnect") => conn[c].replies # << >>

\* C2: a connection whose command is not CONNECT (BIND, UDP ASSOCIATE, or no
\* command) never starts an upstream connect; the only thing its handler does
\* is to write the reply CommandNotSupported to the client and to return.
C2_UnsupportedCommandRejected ==
    \A c \in Conns :
        conn[c].cmd \in {"None", "TCPBind", "UDPAssociate"} =>
            /\ conn[c].attempts = 0
            /\ conn[c].args = NoArgs
            /\ conn[c].stage = "none"
            /\ conn[c].timer = "off"
            /\ conn[c].upstream = "none"
            /\ conn[c].pc \in {"ExecuteCommand", "ReplyError", "Closed"}
            /\ conn[c].pc = "ReplyError" =>
                   conn[c].replyErr = "CommandNotSupported"
            /\ Closed(c) =>
                   /\ conn[c].replies = << "CommandNotSupported" >>
                   /\ conn[c].result = "Err"

C2_Witness ==
    \E c \in Conns :
        /\ Closed(c)
        /\ conn[c].cmd = "UDPAssociate"
        /\ conn[c].replies = << "CommandNotSupported" >>
        /\ conn[c].replyIo = "ok"

\* C3: once connect_with_timeout has failed, the handler writes the client
\* the failure reply map_proxy_connect_error gives for that error and returns
\* an error; it never writes the success reply and never relays.
C3_ConnectFailureReplied ==
    \A c \in Conns :
        Failed(conn[c].cwt) =>
            /\ conn[c].pc \in {"ReplyError", "Closed"}
            /\ conn[c].replyErr = map_proxy_connect_error(conn[c].cwt)
            /\ conn[c].written = << >>
            /\ ~conn[c].flushed
            /\ conn[c].relays = 0
            /\ conn[c].pc = "ReplyError" => conn[c].replies = << >>
            /\ Closed(c) =>
                   /\ conn[c].replies =
                          << map_proxy_connect_error(conn[c].cwt) >>
                   /\ conn[c].result = "Err"

C3_Witness ==
    \E c \in Conns :
        /\ Closed(c)
        /\ conn[c].cwt.kind = "ConnectionRefused"
        /\ conn[c].replies = << "ConnectionRefused" >>
        /\ conn[c].result = "Err"

\* The table of section 4.4: the reply code for each connect error.
ReplyTable(e) ==
    CASE e.variant = "ConnectionTimeout"                   -> "ConnectionTimeout"
      [] e.kind = "ConnectionRefused"                      -> "ConnectionRefused"
      [] e.kind \in {"ConnectionAborted", "ConnectionReset"} ->
             "ConnectionNotAllowed"
      [] e.kind = "NotConnected"                           -> "NetworkUnreachable"
      [] OTHER                                             -> "GeneralFailure"

\* C4: for every ProxyError (every variant, and every transport error kind
\* under both HttpError and SocksError) map_proxy_connect_error returns the
\* reply code of the table, which is one of the failure codes.
C4_MapAgreesWithTable ==
    mapOut # "None" =>
        /\ mapOut = ReplyTable(mapIn)
        /\ mapOut \in ReplyErrors

C4_Witness ==
    /\ mapIn = PErr("SocksError", "Io", "ConnectionReset")
    /\ mapOut = "ConnectionNotAllowed"

\* C5: connect_with_timeout is decided by exactly one of the timer and the
\* inner connect.  If the timer fired, the result is ConnectionTimeout and the
\* inner connect has no result; if the inner connect completed, the result
\* is the inner result, which is not ConnectionTimeout, and the timer did
\* not fire.
C5_RaceDecidedByFirst ==
    \A c \in Conns :
        /\ conn[c].timer = "fired" =>
               /\ conn[c].cwt = ConnectionTimeout
               /\ conn[c].inner = NoError
        /\ conn[c].inner # NoError =>
               /\ conn[c].cwt = conn[c].inner
               /\ conn[c].cwt # ConnectionTimeout
               /\ conn[c].timer = "dropped"
        /\ conn[c].cwt # NoError =>
               (conn[c].timer = "fired") # (conn[c].inner # NoError)

C5_Witness ==
    \E c, d \in Conns :
        /\ conn[c].timer = "fired"
        /\ conn[c].cwt = ConnectionTimeout
        /\ Failed(conn[d].inner)
        /\ conn[d].cwt = conn[d].inner

\* C6: once connect_with_timeout has failed with ConnectionTimeout, the
\* inner connect is cancelled and the upstream socket it may have opened is
\* not open.
C6_TimeoutLeavesNoUpstream ==
    \A c \in Conns :
        conn[c].cwt = ConnectionTimeout =>
            /\ conn[c].stage = "cancelled"
            /\ conn[c].upstream # "open"

C6_Witness ==
    \E c, d \in Conns :
        /\ conn[c].cwt = ConnectionTimeout
        /\ conn[c].upstream = "closed"
        /\ conn[d].cwt = ConnectionTimeout
        /\ conn[d].upstream = "none"

\* C7: a connection in UpstreamConnect does not wait forever for an
\* upstream that never returns: unless the inner connect returns, the timer
\* fires, connect_with_timeout fails with ConnectionTimeout, the reply
\* ConnectionTimeout is written to the client and the handler is Closed.
C7_HungConnectTimesOut ==
    \A c \in Conns :
        (conn[c].pc = "Connect") ~>
            \/ conn[c].inner # NoError
            \/ /\ Closed(c)
               /\ conn[c].timer = "fired"
               /\ conn[c].cwt = ConnectionTimeout
               /\ conn[c].replies = << "ConnectionTimeout" >>

C7_Witness ==
    \E c \in Conns :
        /\ Closed(c)
        /\ conn[c].inner = NoError
        /\ conn[c].stage = "cancelled"
        /\ conn[c].replies = << "ConnectionTimeout" >>
        /\ conn[c].result = "Err"

InFlight(c) == conn[c].pc \notin {"Idle", "Closed"}

\* C8: a step of one connection's handler, and so a step in which it fails
\* or returns an error, changes that connection only: the listener, the
\* accept loop and every other connection are as before.  With a connection
\* failed, the loop is running and can still accept, and every other
\* connection in flight can still take its next step.
C8_FailureIsolation ==
    /\ [][\A c \in Conns :
            (conn[c].pc # "Idle" /\ conn'[c] # conn[c]) =>
                /\ << options, listener, routerResult, acceptLoop, nAccepted,
                      acceptFailed >>'
                       = << options, listener, routerResult, acceptLoop,
                            nAccepted, acceptFailed >>
                /\ \A d \in Conns \ {c} : conn'[d] = conn[d]]_vars
    /\ [](\A c \in Conns :
            (conn[c].result = "Err" \/ Failed(conn[c].cwt)) =>
                /\ acceptLoop = "running"
                /\ nAccepted < MaxConn => ENABLED AcceptOk
                /\ \A d \in Conns \ {c} :
                       InFlight(d) => ENABLED HandlerStep(d))

C8_Witness ==
    \E c, d \in Conns :
        /\ conn[c].result = "Err"
        /\ conn[c].cwt.kind = "ConnectionReset"
        /\ conn[d].pc = "Relay"
        /\ acceptLoop = "running"

\* C9: a failed accept leaves the accept loop running and spawns no handler
\* (no connection changes); after a failure the loop keeps running and a
\* later successful accept is dispatched whatever the earlier handlers are
\* doing.
C9_AcceptFailureNotFatal ==
    /\ [][(~acceptFailed /\ acceptFailed') =>
            /\ acceptLoop' = "running"
            /\ nAccepted' = nAccepted
            /\ conn' = conn]_vars
    /\ [](acceptFailed =>
            /\ acceptLoop = "running"
            /\ nAccepted < MaxConn => ENABLED AcceptOk)

C9_Witness ==
    /\ acceptFailed
    /\ acceptLoop = "running"
    /\ nAccepted = 2
    /\ conn[1].pc = "Relay"
    /\ conn[2].pc = "Upgrade"

\* C10: if the bind failed, spawn_socks5_router returned the error, the
\* accept loop was never started and no connection was accepted or handled;
\* and nothing is accepted unless the bind succeeded.
C10_BindFailureSurfaced ==
    /\ (routerResult = "Err") <=> (listener = "failed")
    /\ listener = "failed" =>
           /\ acceptLoop = "not_started"
           /\ nAccepted = 0
           /\ ~acceptFailed
           /\ \A c \in Conns : conn[c] = NoConn
    /\ (acceptLoop # "not_started" \/ nAccepted > 0 \/ acceptFailed
          \/ \E c \in Conns : conn[c] # NoConn) => listener = "bound"

C10_Witness ==
    /\ listener = "failed"
    /\ routerResult = "Err"
    /\ acceptLoop = "not_started"

\* The steps of a connection and the order the code gives them: each pair
\* is a position of the handler and a position that may directly follow it.
Follows ==
    { <<"Idle", "Upgrade">>,
      <<"Upgrade", "ExecuteCommand">>, <<"Upgrade", "Closed">>,
      <<"ExecuteCommand", "Connect">>, <<"ExecuteCommand", "ReplyError">>,
      <<"ExecuteCommand", "Closed">>,
      <<"Connect", "WriteReply">>, <<"Connect", "ReplyError">>,
      <<"WriteReply", "Flush">>, <<"WriteReply", "Closed">>,
      <<"Flush", "Relay">>, <<"Flush", "Closed">>,
      <<"Relay", "Closed">>,
      <<"ReplyError", "Closed">> }

\* The reply writes the handler has made on connection c include `code`.
Replied(c, code) ==
    \E i \in 1..Len(conn[c].replies) : conn[c].replies[i] = code

RelayEnded(c) == Closed(c) /\ conn[c].relays > 0 /\ conn[c].relayEnd # "None"

\* C12 as stated: relaying ends with the handler returning Ok exactly when
\* copy_bidirectional ended cleanly (both sides at end of stream); every
\* relay I/O error, a connection reset included, makes the handler return
\* an error.
C12_OnlyCleanCloseIsOk ==
    \A c \in Conns :
        RelayEnded(c) =>
            /\ (conn[c].result = "Ok") <=> (conn[c].relayEnd = "Ok")
            /\ (conn[c].result = "Err") <=> (conn[c].relayEnd # "Ok")

\* C12, amended: relaying ends with the handler returning Ok, and no error
\* reported, exactly when copy_bidirectional returned Ok or failed with an
\* io::Error of kind NotConnected or ConnectionReset (which the code logs as
\* closed by the client and closed by the downstream proxy); every other
\* relay I/O error, such as ConnectionAborted, ends relaying with the
\* handler returning that error.
C12_RelayEndResult ==
    \A c \in Conns :
        RelayEnded(c) =>
            /\ (conn[c].result = "Ok" /\ conn[c].error = "None")
                 <=> conn[c].relayEnd \in {"Ok", "NotConnected", "ConnectionReset"}
            /\ (conn[c].result = "Err" /\ conn[c].error = "Io")
                 <=> conn[c].relayEnd \notin {"Ok", "NotConnected", "ConnectionReset"}

C12_Witness ==
    /\ RelayEnded(1) /\ conn[1].relayEnd = "ConnectionReset"
    /\ conn[1].result = "Ok"
    /\ RelayEnded(2) /\ conn[2].relayEnd = "ConnectionAborted"
    /\ conn[2].result = "Err"

\* C13: once a connection's handler has returned (after relaying, after any
\* error, after a connect timeout) its client socket and its upstream socket
\* are closed; a socket is open only while its handler is running, and the
\* upstream socket only from the upstream connect to the end of relaying.
C13_ReturnedHandlerOwnsNothing ==
    \A c \in Conns :
        /\ Closed(c) =>
              /\ conn[c].client = "closed"
              /\ conn[c].upstream \in {"none", "closed"}
              /\ conn[c].result \in {"Ok", "Err"}
        /\ conn[c].pc = "Idle" => conn[c] = NoConn
        /\ conn[c].client = "open" => conn[c].pc \notin {"Idle", "Closed"}
        /\ conn[c].upstream = "open" =>
              /\ conn[c].client = "open"
              /\ conn[c].pc \in {"Connect", "WriteReply", "Flush", "Relay"}

C13_Witness ==
    \E c, d \in Conns :
        /\ Closed(c) /\ conn[c].relayEnd = "Ok" /\ conn[c].result = "Ok"
        /\ conn[c].client = "closed" /\ conn[c].upstream = "closed"
        /\ Closed(d) /\ conn[d].cwt = ConnectionTimeout
        /\ conn[d].timer = "fired" /\ conn[d].callee # "None"
        /\ conn[d].client = "closed" /\ conn[d].upstream = "closed"

\* C14: a connection makes at most one upstream connect attempt and at most
\* one relay in its lifetime: after a failed or timed-out connect the handler
\* goes on to the failure reply and never connects or relays, and once the
\* relay has ended the handler has returned.
C14_OneAttemptOneRelay ==
    \A c \in Conns :
        /\ conn[c].attempts <= 1
        /\ conn[c].relays <= 1
        /\ conn[c].relays = 1 => conn[c].attempts = 1
        /\ Failed(conn[c].cwt) =>
              /\ conn[c].pc \in {"ReplyError", "Closed"}
              /\ conn[c].attempts = 1
              /\ conn[c].relays = 0
        /\ conn[c].relayEnd # "None" => Closed(c) /\ conn[c].relays = 1

C14_Witness ==
    \E c, d \in Conns :
        /\ Closed(c) /\ conn[c].cwt = ConnectionTimeout
        /\ conn[c].attempts = 1 /\ conn[c].relays = 0
        /\ Closed(d) /\ conn[d].relayEnd # "None"
        /\ conn[d].attempts = 1 /\ conn[d].relays = 1

\* C15: whenever the upstream connect succeeded and the handler has written
\* its success reply, the bytes the client socket was given are exactly
\* 5, 0, 0, 1, 127, 0, 0, 1, 0, 0, whatever the target, the upstream
\* protocol and the upstream's local endpoint; and bytes of a success reply
\* are written only after the upstream connect succeeded.
C15_SuccessReplyVerbatim ==
    \A c \in Conns :
        /\ (Replied(c, "Succeeded") /\ conn[c].replyIo = "ok")
               => conn[c].written = SuccessReply
        /\ conn[c].written # << >> => conn[c].cwt = OkStream

\* The reply codes connection c's own request and own upstream outcome call
\* for: CommandNotSupported for a command other than CONNECT, the mapped
\* failure code for a failed connect, Succeeded for a successful one.
OwnReplies(c) ==
    IF conn[c].cmd \notin {"Unread", "TCPConnect"} THEN {"CommandNotSupported"}
    ELSE IF conn[c].cwt = OkStream THEN {"Succeeded"}
    ELSE IF Failed(conn[c].cwt) THEN {map_proxy_connect_error(conn[c].cwt)}
    ELSE {}

\* C16: for connections handled concurrently by one router, in every
\* interleaving, the address a connection connects to is a resolution of its
\* own request's target, the replies it sends are the ones its own command
\* and own upstream outcome call for, and a step of one handler (relaying
\* included) changes nothing of another connection; every handler holds the
\* router's upstream endpoint and timeout, which never change.
C16_ConnectionsIndependent ==
    /\ [][/\ options' = options
          /\ \A c \in Conns :
               (conn[c].pc # "Idle" /\ conn'[c] # conn[c])
                   => \A d \in Conns \ {c} : conn'[d] = conn[d]]_vars
    /\ [](\A c \in Conns :
            conn[c].pc # "Idle" =>
               /\ conn[c].proxy = options.proxy
               /\ conn[c].timeout = options.request_timeout
               /\ conn[c].args # NoArgs =>
                     /\ \E res \in ResolveOutcomes(conn[c].target) :
                           /\ ~res.err /\ res.addrs # << >>
                           /\ conn[c].socket_addr = Head(res.addrs)
                     /\ conn[c].args = Args(conn[c].socket_addr.ip,
                                            conn[c].socket_addr.port,
                                            options.request_timeout)
               /\ \A i \in 1..Len(conn[c].replies) :
                     conn[c].replies[i] \in OwnReplies(c))

C16_Witness ==
    /\ conn[1].pc = "Relay" /\ conn[2].pc = "ReplyError"
    /\ conn[1].target = IpTarget /\ conn[2].target = DomainTarget
    /\ conn[1].args.host = IpTarget.host
    /\ conn[2].args.port = DomainTarget.port
    /\ conn[1].replies = << "Succeeded" >>
    /\ conn[2].cwt = ConnectionTimeout
    /\ conn[1].proxy = conn[2].proxy

\* from_url has returned Ok(proxy) for the URL string urlIn.
UrlAccepted == urlOut # NoProxy /\ urlOut.err = "None"

\* C17 as stated: every accepted URL (scheme http, https or socks5) that
\* carries no explicit port gives an endpoint whose port is 80.
C17_MissingPortIs80 ==
    (UrlAccepted /\ urlIn.port = Absent) => urlOut.port = 80

\* C17, amended: every accepted URL that carries no explicit port gives an
\* endpoint whose port is the default port the URL parser knows for the
\* scheme (80 for http, 443 for https), and 80 where it knows none (socks5).
C17_MissingPortIsSchemeDefault ==
    (UrlAccepted /\ urlIn.port = Absent) =>
        /\ urlIn.scheme \in {"http", "https", "socks5"}
        /\ urlIn.scheme = "http" => urlOut.port = 80
        /\ urlIn.scheme = "https" => urlOut.port = 443
        /\ urlIn.scheme = "socks5" => urlOut.port = 80

C17_Witness ==
    /\ UrlAccepted
    /\ urlIn.scheme = "https"
    /\ urlIn.port = Absent
    /\ urlOut.port = 443

\* C18 as stated: for every well-formed URL, from_url gives protocol Http
\* for scheme http or https and Socks5 for scheme socks5, and fails with
\* InvalidProtocol for every other scheme.
C18_ProtocolByScheme ==
    (urlOut # NoProxy /\ urlOut.err # "UrlParseError") =>
        /\ urlIn.scheme \in {"http", "https"} =>
               urlOut.err = "None" /\ urlOut.protocol = "Http"
        /\ urlIn.scheme = "socks5" =>
               urlOut.err = "None" /\ urlOut.protocol = "Socks5"
        /\ urlIn.scheme \notin {"http", "https", "socks5"} =>
               urlOut.err = "InvalidProtocol"

\* C18, amended: for every well-formed URL that has a host, from_url gives
\* protocol Http for scheme http or https and Socks5 for scheme socks5; a
\* URL of one of these schemes without a host fails with InvalidHost; and a
\* URL of any other scheme fails with InvalidProtocol, so that no endpoint
\* is built for an unknown scheme.
C18_ProtocolBySchemeGivenHost ==
    (urlOut # NoProxy /\ urlOut.err # "UrlParseError") =>
        /\ (urlIn.scheme \in {"http", "https"} /\ urlIn.host # Absent) =>
               urlOut.err = "None" /\ urlOut.protocol = "Http"
        /\ (urlIn.scheme = "socks5" /\ urlIn.host # Absent) =>
               urlOut.err = "None" /\ urlOut.protocol = "Socks5"
        /\ (urlIn.scheme \in {"http", "https", "socks5"}
              /\ urlIn.host = Absent) => urlOut.err = "InvalidHost"
        /\ urlIn.scheme \notin {"http", "https", "socks5"} =>
               urlOut.err = "InvalidProtocol"
        /\ urlOut.err = "None" =>
               urlIn.scheme \in {"http", "https", "socks5"}

C18_Witness ==
    /\ urlIn.scheme = "socks5"
    /\ urlIn.host = Absent
    /\ urlOut.err = "InvalidHost"

\* The handler of connection c has called connect_with_timeout.
Connecting(c) == conn[c].attempts > 0 /\ conn[c].args # NoArgs

\* C19 as stated: connect_with_timeout is called with the host and port of
\* the client's request as they are (for a domain-name target, the name) and
\* with the configured timeout.
C19_ConnectArgsAsRequested ==
    \A c \in Conns :
        Connecting(c) =>
            conn[c].args = Args(conn[c].target.host, conn[c].target.port,
                                options.request_timeout)

\* C19, amended: connect_with_timeout is called with the IP address and the
\* port of the first socket address the request's target resolves to, and
\* with the configured timeout: for an IP target that is the requested
\* address itself, for a domain-name target it is the resolved address,
\* never the name.
C19_ConnectArgsAreResolved ==
    \A c \in Conns :
        Connecting(c) =>
            /\ \E res \in ResolveOutcomes(conn[c].target) :
                  /\ ~res.err /\ res.addrs # << >>
                  /\ conn[c].args = Args(Head(res.addrs).ip,
                                         Head(res.addrs).port,
                                         options.request_timeout)
            /\ conn[c].target.kind = "ip" =>
                  conn[c].args.host = conn[c].target.host
            /\ conn[c].target.kind = "domain" =>
                  conn[c].args.host # conn[c].target.host

C19_Witness ==
    \E c \in Conns :
        /\ Connecting(c)
        /\ conn[c].target = DomainTarget
        /\ conn[c].args = Args("93.184.216.34", 443, RequestTimeout)

\* C20: in the whole lifetime of a connection the handler writes the client
\* at most one reply.  Once the success reply has been written no failure
\* reply follows: a failed write or flush of it and an error while relaying
\* end the handler with that one reply; and a failure reply ends the
\* handler, with no success reply and no relaying after it.
C20_AtMostOneReply ==
    \A c \in Conns :
        /\ Len(conn[c].replies) <= 1
        /\ Replied(c, "Succeeded") =>
              /\ conn[c].replies = << "Succeeded" >>
              /\ conn[c].replyErr = "None"
              /\ conn[c].pc \in {"Flush", "Relay", "Closed"}
        /\ (\E e \in ReplyErrors : Replied(c, e)) =>
              /\ Closed(c)
              /\ conn[c].result = "Err"
              /\ conn[c].written = << >>
              /\ ~conn[c].flushed
              /\ conn[c].relays = 0

C20_Witness ==
    \E c, d \in Conns :
        /\ Closed(c) /\ conn[c].replies = << "Succeeded" >>
        /\ conn[c].relayEnd = "ConnectionAborted" /\ conn[c].result = "Err"
        /\ Closed(d) /\ conn[d].replies = << "ConnectionTimeout" >>
        /\ conn[d].relays = 0

====
